---------------------------- MODULE Spec2Model ----------------------------
(***************************************************************************)
(* A model of the ngram document archive: the sharded concurrent multimap  *)
(* (multimap.rs), the document store built on it (database.rs), the wire   *)
(* protocol codec (message.rs) and the worker-pool TCP server (server.rs,  *)
(* main.rs).                                                               *)
(*                                                                         *)
(* Strings are sequences of bytes (their UTF-8 encoding), usize values are *)
(* naturals, a byte stream is a finite sequence of bytes followed by EOF.  *)
(***************************************************************************)
EXTENDS Integers, Sequences, FiniteSets, TLC

(***************************************************************************)
(* Bounds of the model.                                                    *)
(***************************************************************************)
\* longest string payload enumerated for the codec
MaxStrLen == 2
\* longest id list enumerated for SearchSuccess
MaxIdList == 2

(***************************************************************************)
(* Bytes and strings.                                                      *)
(***************************************************************************)
Null == "null"

\* bytes used to build codec payloads: 'A', ' ', the two bytes of U+00E9,
\* and 0xFF, which occurs in no well-formed UTF-8 text
CodecBytes == {65, 32, 195, 169, 255}

Range(f) == {f[i] : i \in DOMAIN f}

RECURSIVE SeqsUpTo(_, _)
SeqsUpTo(S, n) ==
    IF n = 0 THEN {<<>>}
    ELSE LET shorter == SeqsUpTo(S, n - 1)
         IN  shorter \cup {Append(s, x) : s \in {t \in shorter : Len(t) = n - 1}, x \in S}

IsCont(b) == b \in 128..191

\* a conversion that takes the bytes unchecked
Utf8Unchecked(s) == TRUE

\* String::from_utf8: whether a byte sequence is well-formed UTF-8
RECURSIVE Utf8Valid(_)
Utf8Valid(s) ==
    IF s = <<>> THEN TRUE
    ELSE LET b == s[1]
             n == Len(s)
         IN  IF b < 128 THEN Utf8Valid(Tail(s))
             ELSE IF b \in 194..223
                  THEN n >= 2 /\ IsCont(s[2]) /\ Utf8Valid(SubSeq(s, 3, n))
             ELSE IF b \in 224..239
                  THEN /\ n >= 3
                       /\ IsCont(s[2])
                       /\ (b = 224 => s[2] >= 160)
                       /\ (b = 237 => s[2] <= 159)
                       /\ IsCont(s[3])
                       /\ Utf8Valid(SubSeq(s, 4, n))
             ELSE IF b \in 240..244
                  THEN /\ n >= 4
                       /\ IsCont(s[2])
                       /\ (b = 240 => s[2] >= 144)
                       /\ (b = 244 => s[2] <= 143)
                       /\ IsCont(s[3])
                       /\ IsCont(s[4])
                       /\ Utf8Valid(SubSeq(s, 5, n))
             ELSE FALSE

(***************************************************************************)
(* Wire protocol codec (message.rs).                                       *)
(***************************************************************************)
\* usize::to_be_bytes, the low k bytes of n, most significant first
RECURSIVE BeBytes(_, _)
BeBytes(n, k) ==
    IF k = 0 THEN <<>> ELSE Append(BeBytes(n \div 256, k - 1), n % 256)

\* the same eight bytes, least significant first
RECURSIVE LeBytes(_, _)
LeBytes(n, k) ==
    IF k = 0 THEN <<>> ELSE <<n % 256>> \o LeBytes(n \div 256, k - 1)

to_le_bytes(n) == LeBytes(n, 8)

to_be_bytes(n) == BeBytes(n, 8)

\* u64::from_be_bytes on a buffer whose value fits the model's integers
RECURSIVE from_be_bytes(_)
from_be_bytes(b) ==
    IF b = <<>> THEN 0
    ELSE 256 * from_be_bytes(SubSeq(b, 1, Len(b) - 1)) + b[Len(b)]

\* the 8-byte buffer holds a value below 2^24 (its five high bytes are zero)
FitsModel(b) == \A i \in 1..5 : b[i] = 0

RECURSIVE ConcatBe(_)
ConcatBe(ids) ==
    IF ids = <<>> THEN <<>> ELSE to_be_bytes(Head(ids)) \o ConcatBe(Tail(ids))

Request_to_bytes(r) ==
    CASE r.kind = "Publish"  -> <<1>> \o to_be_bytes(Len(r.doc)) \o r.doc
      [] r.kind = "Search"   -> <<2>> \o to_be_bytes(Len(r.word)) \o r.word
      [] r.kind = "Retrieve" -> <<3>> \o to_be_bytes(r.id)

Response_to_bytes(r) ==
    CASE r.kind = "PublishSuccess"  -> <<1>> \o to_be_bytes(r.id)
      [] r.kind = "SearchSuccess"   -> <<2>> \o to_be_bytes(Len(r.ids)) \o ConcatBe(r.ids)
      [] r.kind = "RetrieveSuccess" -> <<3>> \o to_be_bytes(Len(r.doc)) \o r.doc
      [] r.kind = "Failure"         -> <<4>>

\* outcomes of a decode: a value and the unread rest of the stream, no value,
\* a panic of the decoding thread, or the abort of the process when an
\* allocation fails
Some(v, rest) == [st |-> "some", val |-> v, rest |-> rest]
None          == [st |-> "none", val |-> Null, rest |-> <<>>]
Panic         == [st |-> "panic", val |-> Null, rest |-> <<>>]
Abort         == [st |-> "abort", val |-> Null, rest |-> <<>>]

Drop(s, n) == SubSeq(s, n + 1, Len(s))

\* Read::read_exact of n bytes from stream s: Err(UnexpectedEof) on a short stream
read_exact_ok(s, n) == Len(s) >= n

\* a byte count of 2^47 or more, given by its 8 big-endian bytes: more than
\* the address space of a process holds
BeyondMemory(lenb) == lenb[1] > 0 \/ lenb[2] >= 128

\* An 8-byte length followed by that many bytes, as both from_bytes read it:
\* "short" when a read_exact fails, "overflow" when vec![0; len] exceeds
\* isize::MAX (capacity overflow panic), "nomem" when the buffer cannot be
\* allocated (handle_alloc_error), otherwise the payload and the rest.  A
\* smaller length the stream does not honour is taken to be allocated and
\* then to fail the read.
ReadSized(s) ==
    IF ~read_exact_ok(s, 8) THEN [st |-> "short_len"]
    ELSE LET lenb == SubSeq(s, 1, 8)
             body == Drop(s, 8)
         IN  IF lenb[1] >= 128 THEN [st |-> "overflow"]
             ELSE IF BeyondMemory(lenb) THEN [st |-> "nomem"]
             ELSE IF ~FitsModel(lenb) THEN [st |-> "short_body"]
             ELSE LET len == from_be_bytes(lenb)
                  IN  IF ~read_exact_ok(body, len) THEN [st |-> "short_body"]
                      ELSE [st |-> "ok", len |-> len,
                            bytes |-> SubSeq(body, 1, len), rest |-> Drop(body, len)]

\* an 8-byte id
ReadId(s) ==
    IF ~read_exact_ok(s, 8) THEN [st |-> "short_len"]
    ELSE [st |-> "ok", id |-> from_be_bytes(SubSeq(s, 1, 8)), rest |-> Drop(s, 8)]

Request_from_bytes(s) ==
    IF ~read_exact_ok(s, 1) THEN None
    ELSE LET tag == s[1]
             r   == Drop(s, 1)
         IN  IF tag \in {1, 2}
             THEN LET p == ReadSized(r)
                  IN  IF p.st = "overflow" THEN Panic
                      ELSE IF p.st = "nomem" THEN Abort
                      ELSE IF p.st # "ok" THEN None
                      ELSE IF ~Utf8Valid(p.bytes) THEN None
                      ELSE IF tag = 1
                           THEN Some([kind |-> "Publish", doc |-> p.bytes], p.rest)
                           ELSE Some([kind |-> "Search", word |-> p.bytes], p.rest)
             ELSE IF tag = 3
             THEN LET p == ReadId(r)
                  IN  IF p.st # "ok" THEN None
                      ELSE Some([kind |-> "Retrieve", id |-> p.id], p.rest)
             ELSE None

\* the ids of a SearchSuccess: len reads of 8 bytes, each unwrapped
RECURSIVE ReadIds(_, _)
ReadIds(s, len) ==
    IF len = 0 THEN [st |-> "ok", ids |-> <<>>, rest |-> s]
    ELSE IF ~read_exact_ok(s, 8) THEN [st |-> "short_body"]
    ELSE LET more == ReadIds(Drop(s, 8), len - 1)
         IN  IF more.st # "ok" THEN more
             ELSE [st |-> "ok",
                   ids |-> <<from_be_bytes(SubSeq(s, 1, 8))>> \o more.ids,
                   rest |-> more.rest]

\* a failed read_exact after the tag is unwrapped in Response::from_bytes
ResponseShortRead == Panic

Response_from_bytes(s) ==
    IF ~read_exact_ok(s, 1) THEN None
    ELSE LET tag == s[1]
             r   == Drop(s, 1)
         IN  IF tag = 1
             THEN LET p == ReadId(r)
                  IN  IF p.st # "ok" THEN ResponseShortRead
                      ELSE Some([kind |-> "PublishSuccess", id |-> p.id], p.rest)
             ELSE IF tag = 2
             THEN IF ~read_exact_ok(r, 8) THEN ResponseShortRead
                  ELSE LET lenb == SubSeq(r, 1, 8)
                       IN  \* Vec::<usize>::with_capacity(len): len * 8 > isize::MAX
                           IF lenb[1] >= 16 THEN Panic
                           ELSE IF lenb[1] > 0 \/ lenb[2] >= 16 THEN Abort
                           ELSE IF ~FitsModel(lenb) THEN ResponseShortRead
                           ELSE LET p == ReadIds(Drop(r, 8), from_be_bytes(lenb))
                                IN  IF p.st # "ok" THEN ResponseShortRead
                                    ELSE Some([kind |-> "SearchSuccess", ids |-> p.ids],
                                              p.rest)
             ELSE IF tag = 3
             THEN LET p == ReadSized(r)
                  IN  IF p.st = "overflow" THEN Panic
                      ELSE IF p.st = "nomem" THEN Abort
                      ELSE IF p.st # "ok" THEN ResponseShortRead
                      ELSE IF ~Utf8Valid(p.bytes) THEN None
                      ELSE Some([kind |-> "RetrieveSuccess", doc |-> p.bytes], p.rest)
             ELSE IF tag = 4 THEN Some([kind |-> "Failure"], r)
             ELSE None


(***************************************************************************)
(* Text normalisation used by the document store (database.rs).            *)
(***************************************************************************)
\* char::is_whitespace on the ASCII range
IsWhitespace(b) == b \in 9..13 \/ b = 32

\* char::to_lowercase on the ASCII range
ToLowerByte(b) == IF b \in 65..90 THEN b + 32 ELSE b

to_lowercase(s) == [i \in 1..Len(s) |-> ToLowerByte(s[i])]

\* str::split_whitespace: the maximal runs of non-whitespace, in order
RECURSIVE SplitFrom(_, _)
SplitFrom(s, cur) ==
    IF s = <<>> THEN (IF cur = <<>> THEN <<>> ELSE <<cur>>)
    ELSE IF IsWhitespace(Head(s))
         THEN (IF cur = <<>> THEN <<>> ELSE <<cur>>) \o SplitFrom(Tail(s), <<>>)
         ELSE SplitFrom(Tail(s), Append(cur, Head(s)))

split_whitespace(s) == SplitFrom(s, <<>>)

SelectNonEmpty(ws) == SelectSeq(ws, LAMBDA w : w # <<>>)

\* a publish that indexes the words as they are written
IndexWordsRaw(doc) == SelectNonEmpty(split_whitespace(doc))

\* the words publish hands to reverse_index.set, in order
IndexWords(doc) ==
    LET ws == split_whitespace(doc)
    IN  SelectNonEmpty([i \in 1..Len(ws) |-> to_lowercase(ws[i])])


(***************************************************************************)
(* State.                                                                  *)
(***************************************************************************)
VARIABLES
    buckets,      \* ConcurrentMultiMap.buckets: bucket i is buckets[i + 1]
    shard_w,      \* live write guards of the buckets: pairs <<bucket, thread>>
    shard_r,      \* live read guards of the buckets: pairs <<bucket, thread>>
    blob_store,   \* Database.blob_store: the documents, id i at blob_store[i + 1]
    blob_lock,    \* the thread holding the blob_store mutex, or NoThread
    th,           \* per thread: the call it is running and where it is in it
    pub_log,      \* history: <<id, doc>> of every publish that has returned
    pub_calls,    \* history: number of publish calls made so far
    set_log,      \* history: the <<key, value>> of every direct set that has returned
    set_again,    \* history: the pairs that two or more such sets were given
    last,         \* history: the latest call that returned to a caller
    calls,        \* number of calls made by the callers so far
    cx,           \* the codec round: a value, its bytes, and what decoding gave
    is_stopped,   \* ServerState.is_stopped
    run_pc,       \* where the thread that called run is
    listener,     \* the listening socket: "unbound", "bound" or "failed"
    acc,          \* the listener thread: where it is, and the connection it holds
    conns,        \* the connections clients have made, in order: what the client
                  \* sent, where the connection is, what was written back, and
                  \* (history) whether its task was submitted with the flag set
    queue,        \* the tasks handed to the pool and not yet taken, oldest first
    script_pos,   \* how many of the scripted requests the scripted client has sent
    scripted      \* history: the connections so far follow the scripted exchanges

dbvars == <<buckets, shard_w, shard_r, blob_store, blob_lock, th, pub_log, pub_calls, set_log,
            set_again, last, calls, cx>>

srvvars == <<is_stopped, run_pc, listener, acc, conns, queue, script_pos, scripted>>

vars == <<buckets, shard_w, shard_r, blob_store, blob_lock, th, pub_log, pub_calls, set_log,
          set_again, last, calls, cx, srvvars>>

\* number of threads calling into the store
NumThreads == 2
\* most calls the callers of the document store make in a run
MaxCalls == 3
\* most calls the callers of the multimap make in a run
MaxMapCalls == 4
\* bucket count given to ConcurrentMultiMap::new when the map is used alone
MapBuckets == 2
\* const BUCKETS of database.rs
BUCKETS == 128

Threads == 1..NumThreads
NoThread == 0

(***************************************************************************)
(* The sharded multimap (multimap.rs).                                     *)
(***************************************************************************)
\* ConcurrentMultiMap::new: bucket_count empty lists, each behind its own lock
NewBuckets(bucket_count) == [i \in 1..bucket_count |-> <<>>]

RECURSIVE SumBytes(_)
SumBytes(s) == IF s = <<>> THEN 0 ELSE Head(s) + SumBytes(Tail(s))

\* DefaultHasher over the key: a fixed function of the key's bytes.  The byte
\* sum stands for it; it makes distinct keys of the model share a bucket.
HashOf(key) == SumBytes(key)

bucket_ind(key) == HashOf(key) % Len(buckets)

\* a map with one lock for all of its buckets
CanWriteAnyShard(b) ==
    /\ shard_w = {}
    /\ shard_r = {}

\* RwLock::write returns once no guard of the bucket is alive
CanWrite(b) ==
    /\ \A g \in shard_w : g[1] # b
    /\ \A g \in shard_r : g[1] # b

\* RwLock::read returns once no write guard of the bucket is alive
CanRead(b) == \A g \in shard_w : g[1] # b

\* the scan of set: whether the pair is already in the list
HasPair(list, key, value) ==
    \E i \in 1..Len(list) : list[i][1] = key /\ list[i][2] = value

\* a set that pushes without scanning
BucketInsertAlways(list, key, value) == Append(list, <<key, value>>)

\* the list of a bucket after set(key, value)
BucketInsert(list, key, value) ==
    IF HasPair(list, key, value) THEN list ELSE Append(list, <<key, value>>)

\* the values get(key) collects from a bucket's list, in list order
BucketLookup(list, key) ==
    LET hits == SelectSeq(list, LAMBDA kv : kv[1] = key)
    IN  [i \in 1..Len(hits) |-> hits[i][2]]

(***************************************************************************)
(* The document store (database.rs).                                       *)
(***************************************************************************)
\* a lock call that never waits
MutexNeverWaits(holder) == TRUE

\* Mutex::lock returns once no other thread holds the mutex
MutexFree(holder) == holder = NoThread

\* let next_id = blob_store.len()
NextId(store) == Len(store)

\* a push of the normalised text in place of the raw text
BlobPushLowered(store, doc) == Append(store, to_lowercase(doc))

\* blob_store.push(doc)
BlobPush(store, doc) == Append(store, doc)

\* blob_store.get(id).cloned()
BlobGet(store, id) == IF id < Len(store) THEN <<"Some", store[id + 1]>> ELSE <<"None">>

\* a search that looks its argument up as given
SearchKeyRaw(word) == word

\* let cleaned_word = word.to_lowercase() of search
SearchKey(word) == to_lowercase(word)

Idle == [pc |-> "idle", op |-> "none", arg |-> <<>>, id |-> 0, words |-> <<>>,
         key |-> <<>>, val |-> 0, b |-> 0, res |-> <<>>, seen |-> 0, k |-> 0,
         alone |-> TRUE, known |-> {}, conn |-> 0]

NoCall == [op |-> "none", arg |-> <<>>, id |-> 0, key |-> <<>>, val |-> 0, res |-> <<>>,
           seen |-> 0, k |-> 0, alone |-> TRUE, known |-> {}]

\* the call of thread r as its caller sees it return res
Returned(r, res) ==
    [op |-> r.op, arg |-> r.arg, id |-> r.id, key |-> r.key, val |-> r.val, res |-> res,
     seen |-> r.seen, k |-> r.k, alone |-> r.alone, known |-> r.known]

\* thread t returns res: to a direct caller, who is then free to call again,
\* or to the worker task that made the call for connection conn
Finish(t, r, res) ==
    IF r.conn = 0
    THEN /\ th' = [th EXCEPT ![t] = Idle]
         /\ last' = Returned(r, res)
    ELSE /\ th' = [th EXCEPT ![t] = [r EXCEPT !.pc = "done", !.res = res]]
         /\ last' = last

\* a caller is between calls; idle callers are interchangeable, so the call
\* is made by the first of them
CanCall(t) ==
    /\ th[t].pc = "idle"
    /\ \A u \in 1..(t - 1) : th[u].pc # "idle"

PublishInFlight(t) == th[t].op = "publish" /\ th[t].pc # "done"

\* thread t at the entry of publish(doc), called for connection c (0: directly)
PublishEntry(t, doc, c) ==
    [Idle EXCEPT !.pc = "pub_lock", !.op = "publish", !.arg = doc, !.conn = c,
                 !.k = pub_calls,
                 !.alone = \A v \in Threads \ {t} : ~PublishInFlight(v)]

\* thread t at the entry of search(word): the word is lowercased for get
SearchEntry(word, c) ==
    [Idle EXCEPT !.pc = "get_lock", !.op = "search", !.arg = word, !.conn = c,
                 !.key = SearchKey(word), !.seen = Len(pub_log)]

\* thread t at the entry of retrieve(id); known: the ids the latest search
\* to return had found, when that search is the latest call to have returned
RetrieveEntry(id, c) ==
    [Idle EXCEPT !.pc = "ret_lock", !.op = "retrieve", !.id = id, !.conn = c,
                 !.seen = Len(pub_log),
                 !.known = IF last.op = "search" THEN Range(last.res) ELSE {}]

\* the threads once thread t has entered the call r
Entered(t, r) ==
    [u \in Threads |->
        IF u = t THEN r
        ELSE IF r.op = "publish" /\ PublishInFlight(u) THEN [th[u] EXCEPT !.alone = FALSE]
        ELSE th[u]]

\* a caller enters publish(doc)
CallPublish(t, doc) ==
    /\ CanCall(t)
    /\ calls < MaxCalls
    /\ calls' = calls + 1
    /\ pub_calls' = pub_calls + 1
    /\ th' = Entered(t, PublishEntry(t, doc, 0))
    /\ UNCHANGED <<buckets, shard_w, shard_r, blob_store, blob_lock, pub_log, set_log, set_again, last, cx, srvvars>>

\* where publish goes once the words left to index are ws
AfterWords(r, ws) ==
    IF ws = <<>> THEN [r EXCEPT !.pc = "pub_push", !.words = <<>>]
    ELSE [r EXCEPT !.pc = "set_lock", !.key = Head(ws), !.val = r.id, !.words = Tail(ws)]

\* a publish that drops the mutex guard as soon as it has read next_id
PublishLockBrief(t) ==
    /\ th[t].pc = "pub_lock"
    /\ MutexFree(blob_lock)
    /\ blob_lock' = blob_lock
    /\ th' = [th EXCEPT ![t] =
                AfterWords([th[t] EXCEPT !.id = NextId(blob_store)], IndexWords(th[t].arg))]
    /\ UNCHANGED <<buckets, shard_w, shard_r, blob_store, pub_log, pub_calls, set_log, set_again, last, calls, cx, srvvars>>

\* publish: blob_store.lock(), next_id, and the first word of the loop
PublishLock(t) ==
    /\ th[t].pc = "pub_lock"
    /\ MutexFree(blob_lock)
    /\ blob_lock' = t
    /\ th' = [th EXCEPT ![t] =
                AfterWords([th[t] EXCEPT !.id = NextId(blob_store)], IndexWords(th[t].arg))]
    /\ UNCHANGED <<buckets, shard_w, shard_r, blob_store, pub_log, pub_calls, set_log, set_again, last, calls, cx, srvvars>>

\* set: hash the key and take the bucket's write lock
SetLock(t) ==
    /\ th[t].pc = "set_lock"
    /\ LET b == bucket_ind(th[t].key)
       IN  /\ CanWrite(b)
           /\ shard_w' = shard_w \cup {<<b, t>>}
           /\ th' = [th EXCEPT ![t].pc = "set_body", ![t].b = b]
    /\ UNCHANGED <<buckets, shard_r, blob_store, blob_lock, pub_log, pub_calls, set_log, set_again, last, calls, cx, srvvars>>

\* set: scan the list, push the pair if absent, drop the guard and return;
\* inside publish the loop goes on to its next word
SetBody(t) ==
    /\ th[t].pc = "set_body"
    /\ LET b == th[t].b
       IN  /\ buckets' = [buckets EXCEPT ![b + 1] = BucketInsert(@, th[t].key, th[t].val)]
           /\ shard_w' = shard_w \ {<<b, t>>}
    /\ IF th[t].op = "publish"
       THEN /\ th' = [th EXCEPT ![t] = AfterWords(th[t], th[t].words)]
            /\ UNCHANGED <<set_log, set_again, last>>
       ELSE /\ Finish(t, th[t], <<>>)
            /\ set_log' = set_log \cup {<<th[t].key, th[t].val>>}
            /\ set_again' = set_again \cup ({<<th[t].key, th[t].val>>} \cap set_log)
    /\ UNCHANGED <<shard_r, blob_store, blob_lock, pub_log, pub_calls, calls, cx, srvvars>>

\* a publish that may append the text before its word loop is over
PublishPushAnytime(t) ==
    /\ th[t].op = "publish"
    /\ th[t].pc \in {"pub_push", "set_lock"}
    /\ blob_store' = BlobPush(blob_store, th[t].arg)
    /\ blob_lock' = NoThread
    /\ th' = [th EXCEPT ![t].pc = "pub_ret"]
    /\ UNCHANGED <<buckets, shard_w, shard_r, pub_log, pub_calls, set_log, set_again, last, calls, cx, srvvars>>

\* publish: blob_store.push(doc), then the mutex guard drops
PublishPush(t) ==
    /\ th[t].pc = "pub_push"
    /\ blob_store' = BlobPush(blob_store, th[t].arg)
    /\ blob_lock' = NoThread
    /\ th' = [th EXCEPT ![t].pc = "pub_ret"]
    /\ UNCHANGED <<buckets, shard_w, shard_r, pub_log, pub_calls, set_log, set_again, last, calls, cx, srvvars>>

\* publish hands next_id to its caller
PublishReturn(t) ==
    /\ th[t].pc = "pub_ret"
    /\ Finish(t, th[t], <<th[t].id>>)
    /\ pub_log' = Append(pub_log, <<th[t].id, th[t].arg>>)
    /\ UNCHANGED <<buckets, shard_w, shard_r, blob_store, blob_lock, pub_calls, set_log, set_again, calls, cx, srvvars>>

\* a caller enters search(word): the word is lowercased and handed to get
CallSearch(t, word) ==
    /\ CanCall(t)
    /\ calls < MaxCalls
    /\ calls' = calls + 1
    /\ th' = Entered(t, SearchEntry(word, 0))
    /\ UNCHANGED <<buckets, shard_w, shard_r, blob_store, blob_lock, pub_log, pub_calls, set_log, set_again, last, cx, srvvars>>

\* get: hash the key and take the bucket's read lock
GetLock(t) ==
    /\ th[t].pc = "get_lock"
    /\ LET b == bucket_ind(th[t].key)
       IN  /\ CanRead(b)
           /\ shard_r' = shard_r \cup {<<b, t>>}
           /\ th' = [th EXCEPT ![t].pc = "get_body", ![t].b = b]
    /\ UNCHANGED <<buckets, shard_w, blob_store, blob_lock, pub_log, pub_calls, set_log, set_again, last, calls, cx, srvvars>>

\* a get that, still holding its read guard, waits for the mutex of the
\* blob store before it returns
GetBodyNeedsMutex(t) ==
    /\ th[t].pc = "get_body"
    /\ MutexFree(blob_lock)
    /\ shard_r' = shard_r \ {<<th[t].b, t>>}
    /\ Finish(t, th[t], BucketLookup(buckets[th[t].b + 1], th[t].key))
    /\ UNCHANGED <<buckets, shard_w, blob_store, blob_lock, pub_log, pub_calls, set_log, set_again, calls, cx, srvvars>>

\* get: collect the values of the key, drop the guard and return them
GetBody(t) ==
    /\ th[t].pc = "get_body"
    /\ shard_r' = shard_r \ {<<th[t].b, t>>}
    /\ Finish(t, th[t], BucketLookup(buckets[th[t].b + 1], th[t].key))
    /\ UNCHANGED <<buckets, shard_w, blob_store, blob_lock, pub_log, pub_calls, set_log, set_again, calls, cx, srvvars>>

\* a caller enters retrieve(id)
CallRetrieve(t, id) ==
    /\ CanCall(t)
    /\ calls < MaxCalls
    /\ calls' = calls + 1
    /\ th' = Entered(t, RetrieveEntry(id, 0))
    /\ UNCHANGED <<buckets, shard_w, shard_r, blob_store, blob_lock, pub_log, pub_calls, set_log, set_again, last, cx, srvvars>>

\* retrieve: blob_store.lock()
RetrieveLock(t) ==
    /\ th[t].pc = "ret_lock"
    /\ MutexFree(blob_lock)
    /\ blob_lock' = t
    /\ th' = [th EXCEPT ![t].pc = "ret_body"]
    /\ UNCHANGED <<buckets, shard_w, shard_r, blob_store, pub_log, pub_calls, set_log, set_again, last, calls, cx, srvvars>>

\* retrieve: blob_store.get(id).cloned(), then the mutex guard drops
RetrieveBody(t) ==
    /\ th[t].pc = "ret_body"
    /\ blob_lock' = NoThread
    /\ Finish(t, [th[t] EXCEPT !.k = Len(blob_store)], BlobGet(blob_store, th[t].id))
    /\ UNCHANGED <<buckets, shard_w, shard_r, blob_store, pub_log, pub_calls, set_log, set_again, calls, cx, srvvars>>


(***************************************************************************)
(* Direct use of the multimap: callers of set and get.                     *)
(***************************************************************************)
CallSet(t, key, value) ==
    /\ CanCall(t)
    /\ calls < MaxMapCalls
    /\ calls' = calls + 1
    /\ th' = [th EXCEPT ![t] =
                [Idle EXCEPT !.pc = "set_lock", !.op = "set", !.key = key, !.val = value]]
    /\ UNCHANGED <<buckets, shard_w, shard_r, blob_store, blob_lock, pub_log, pub_calls, set_log, set_again, last, cx, srvvars>>

CallGet(t, key) ==
    /\ CanCall(t)
    /\ calls < MaxMapCalls
    /\ calls' = calls + 1
    /\ th' = [th EXCEPT ![t] =
                [Idle EXCEPT !.pc = "get_lock", !.op = "get", !.key = key,
                             !.known = {p[2] : p \in {q \in set_log : q[1] = key}}]]
    /\ UNCHANGED <<buckets, shard_w, shard_r, blob_store, blob_lock, pub_log, pub_calls, set_log, set_again, last, cx, srvvars>>

(***************************************************************************)
(* Inputs of the runs.                                                     *)
(***************************************************************************)
\* "a A", " Ab<TAB>bA " and the empty document
Docs == {<<97, 32, 65>>, <<32, 65, 98, 9, 98, 65, 32>>, <<>>}

\* the texts of the scripted exchanges: "hello world" and "hello"
HelloWorld == <<104, 101, 108, 108, 111, 32, 119, 111, 114, 108, 100>>

Hello == <<104, 101, 108, 108, 111>>

\* "A", "aB", "zz" and "a A"
SearchWords == {<<65>>, <<97, 66>>, <<122, 122>>, <<97, 32, 65>>}

RetrieveIds == {0, 1}

\* ("a", 0), ("a", 1), ("ba", 0), ("b", 0)
MapPairs == {<<<<97>>, 0>>, <<<<97>>, 1>>, <<<<98, 97>>, 0>>, <<<<98>>, 0>>}

MapKeys == {p[1] : p \in MapPairs}

CodecIdle == [stage |-> "idle", fam |-> "none", val |-> Null, wire |-> <<>>, tail |-> <<>>,
              decoded |-> FALSE, dec |-> None]

InitStore(bucket_count) ==
    /\ buckets = NewBuckets(bucket_count)
    /\ shard_w = {}
    /\ shard_r = {}
    /\ blob_store = <<>>
    /\ blob_lock = NoThread
    /\ th = [t \in Threads |-> Idle]
    /\ pub_log = <<>>
    /\ pub_calls = 0
    /\ set_log = {}
    /\ set_again = {}
    /\ last = NoCall
    /\ calls = 0

\* Server::new: nothing bound, no thread spawned, the flag unset
InitServer ==
    /\ is_stopped = FALSE
    /\ run_pc = "created"
    /\ listener = "unbound"
    /\ acc = [pc |-> "none", cur |-> 0]
    /\ conns = <<>>
    /\ queue = <<>>
    /\ script_pos = 0
    /\ scripted = TRUE

(***************************************************************************)
(* The document store under concurrent callers.                            *)
(***************************************************************************)
InitDatabase == InitStore(BUCKETS) /\ cx = CodecIdle /\ InitServer

NextDatabase ==
    \E t \in Threads :
        \/ \E doc \in Docs : CallPublish(t, doc)
        \/ \E word \in SearchWords : CallSearch(t, word)
        \/ \E id \in RetrieveIds : CallRetrieve(t, id)
        \/ PublishLock(t)
        \/ SetLock(t)
        \/ SetBody(t)
        \/ PublishPush(t)
        \/ PublishReturn(t)
        \/ GetLock(t)
        \/ GetBody(t)
        \/ RetrieveLock(t)
        \/ RetrieveBody(t)

SpecDatabase == InitDatabase /\ [][NextDatabase]_vars

\* the steps of the operation thread t is running
ThreadStep(t) ==
    \/ PublishLock(t)
    \/ SetLock(t)
    \/ SetBody(t)
    \/ PublishPush(t)
    \/ PublishReturn(t)
    \/ GetLock(t)
    \/ GetBody(t)
    \/ RetrieveLock(t)
    \/ RetrieveBody(t)

\* every thread that can take a step of its operation is scheduled in the
\* end; nothing obliges a caller to start a call
SpecDatabaseFair == SpecDatabase /\ \A t \in Threads : WF_vars(ThreadStep(t))

(***************************************************************************)
(* The multimap under concurrent callers.                                  *)
(***************************************************************************)
InitMultiMap == InitStore(MapBuckets) /\ cx = CodecIdle /\ InitServer

NextMultiMap ==
    \E t \in Threads :
        \/ \E p \in MapPairs : CallSet(t, p[1], p[2])
        \/ \E key \in MapKeys : CallGet(t, key)
        \/ SetLock(t)
        \/ SetBody(t)
        \/ GetLock(t)
        \/ GetBody(t)

SpecMultiMap == InitMultiMap /\ [][NextMultiMap]_vars


(***************************************************************************)
(* The codec on its own: a value is encoded, the bytes are left whole, cut *)
(* short or followed by further bytes, or a foreign stream is taken, and   *)
(* the result is decoded from a stream that ends where the bytes end.      *)
(***************************************************************************)
ValidStrings == {str \in SeqsUpTo(CodecBytes, MaxStrLen) : Utf8Valid(str)}

\* a text that cannot be UTF-8: a byte no UTF-8 text holds, a continuation
\* byte that follows no sequence, or a lead byte that no continuation follows
IllFormed(str) ==
    \E i \in 1..Len(str) :
        \/ str[i] \in {192, 193} \cup 245..255
        \/ IsCont(str[i]) /\ (i = 1 \/ str[i - 1] < 128)
        \/ str[i] \in 194..244 /\ (i = Len(str) \/ ~IsCont(str[i + 1]))

InvalidStrings == {str \in SeqsUpTo(CodecBytes, MaxStrLen) : IllFormed(str)}

\* 0, 5, 0x0102 and 0x01020304
CodecIds == {0, 5, 258, 16909060}

RequestValues ==
    {[kind |-> "Publish", doc |-> str] : str \in ValidStrings}
    \cup {[kind |-> "Search", word |-> str] : str \in ValidStrings}
    \cup {[kind |-> "Retrieve", id |-> n] : n \in CodecIds}

ResponseValues ==
    {[kind |-> "PublishSuccess", id |-> n] : n \in CodecIds}
    \cup {[kind |-> "SearchSuccess", ids |-> l] : l \in SeqsUpTo({0, 258}, MaxIdList)}
    \cup {[kind |-> "RetrieveSuccess", doc |-> str] : str \in ValidStrings}
    \cup {[kind |-> "Failure"]}

\* bytes that follow a message on a stream
Tails == {<<7>>, <<1, 0>>}

KnownTags(fam) == IF fam = "request" THEN {1, 2, 3} ELSE {1, 2, 3, 4}

StringTags(fam) == IF fam = "request" THEN {1, 2} ELSE {3}

\* streams no encoder of the family produces: an unknown tag before anything,
\* or a string whose payload is not UTF-8
ForeignStreams(fam) ==
    {<<tag>> \o rest : tag \in {0, 4, 5, 77, 255} \ KnownTags(fam),
                       rest \in {<<>>, to_be_bytes(1) \o <<65>>}}
    \cup {<<tag>> \o to_be_bytes(Len(str)) \o str \o rest :
              tag \in StringTags(fam), str \in InvalidStrings, rest \in {<<>>} \cup Tails}

EncodeRequest(v) ==
    /\ cx.stage = "idle"
    /\ cx' = [stage |-> "encoded", fam |-> "request", val |-> v,
              wire |-> Request_to_bytes(v), tail |-> <<>>, decoded |-> FALSE, dec |-> None]

EncodeResponse(v) ==
    /\ cx.stage = "idle"
    /\ cx' = [stage |-> "encoded", fam |-> "response", val |-> v,
              wire |-> Response_to_bytes(v), tail |-> <<>>, decoded |-> FALSE, dec |-> None]

\* the stream ends after the first n bytes of the message
Truncate(n) ==
    /\ cx.stage = "encoded" /\ ~cx.decoded
    /\ n < Len(cx.wire)
    /\ cx' = [cx EXCEPT !.stage = "truncated", !.wire = SubSeq(cx.wire, 1, n)]

\* further bytes follow the message
Extend(rest) ==
    /\ cx.stage = "encoded" /\ ~cx.decoded
    /\ cx' = [cx EXCEPT !.stage = "extended", !.wire = cx.wire \o rest, !.tail = rest]

TakeForeign(fam, w) ==
    /\ cx.stage = "idle"
    /\ cx' = [stage |-> "foreign", fam |-> fam, val |-> Null, wire |-> w, tail |-> <<>>,
              decoded |-> FALSE, dec |-> None]

DecodeRequest ==
    /\ cx.stage # "idle" /\ ~cx.decoded /\ cx.fam = "request"
    /\ cx' = [cx EXCEPT !.decoded = TRUE, !.dec = Request_from_bytes(cx.wire)]

DecodeResponse ==
    /\ cx.stage # "idle" /\ ~cx.decoded /\ cx.fam = "response"
    /\ cx' = [cx EXCEPT !.decoded = TRUE, !.dec = Response_from_bytes(cx.wire)]

InitCodec == InitStore(MapBuckets) /\ cx = CodecIdle /\ InitServer

NextCodec ==
    /\ \/ \E v \in RequestValues : EncodeRequest(v)
       \/ \E v \in ResponseValues : EncodeResponse(v)
       \/ \E n \in 0..(9 + MaxStrLen + 8 * MaxIdList) : Truncate(n)
       \/ \E rest \in Tails : Extend(rest)
       \/ \E fam \in {"request", "response"} : \E w \in ForeignStreams(fam) : TakeForeign(fam, w)
       \/ DecodeRequest
       \/ DecodeResponse
    /\ UNCHANGED <<buckets, shard_w, shard_r, blob_store, blob_lock, th, pub_log, pub_calls,
                   set_log, set_again, last, calls, srvvars>>

SpecCodec == InitCodec /\ [][NextCodec]_vars

(***************************************************************************)
(* The server (server.rs).  The pool's source is not part of the           *)
(* repository's files at hand: it is taken to be what the specification    *)
(* says, a FIFO queue of tasks served by a fixed set of workers.           *)
(***************************************************************************)
\* most connections clients make in a run
MaxConns == 4

\* most clients connected at a time
MaxClients == 2

\* most connections stray clients make in a run
MaxStrays == 1

\* the scripted exchanges: Publish{"hello world"}, Search{"hello"},
\* Retrieve{0}, Retrieve{5}
Script ==
    << Request_to_bytes([kind |-> "Publish", doc |-> HelloWorld]),
       Request_to_bytes([kind |-> "Search", word |-> Hello]),
       Request_to_bytes([kind |-> "Retrieve", id |-> 0]),
       Request_to_bytes([kind |-> "Retrieve", id |-> 5]) >>

\* what stray clients send before closing their end: a request cut short, a
\* Publish whose length field is 2^64 - 1, or a Search whose length field is
\* 2^62
StrayMessages ==
    { SubSeq(Script[1], 1, 12),
      <<1, 255, 255, 255, 255, 255, 255, 255, 255>>,
      <<2, 64, 0, 0, 0, 0, 0, 0, 0>> }

\* what a client may send next: the scripted client its next request, a
\* stray client anything of its own
ClientMessages ==
    (IF Len(conns) - script_pos < MaxStrays THEN StrayMessages ELSE {})
    \cup (IF script_pos < Len(Script) THEN {Script[script_pos + 1]} ELSE {})

\* a connection closed with nothing written to it
Dropped == [st |-> "dropped", req |-> <<>>, resp |-> <<>>, late |-> FALSE]

\* a connection closed after bytes were written to it
Closed(bytes) == [st |-> "closed", req |-> <<>>, resp |-> bytes, late |-> FALSE]

\* TcpListener::bind succeeds: run goes on to spawn the listener thread and
\* to poll the flag
RunBindOk ==
    /\ run_pc = "created"
    /\ run_pc' = "polling"
    /\ listener' = "bound"
    /\ acc' = [pc |-> "accepting", cur |-> 0]
    /\ UNCHANGED <<is_stopped, conns, queue, script_pos, scripted>>
    /\ UNCHANGED dbvars

\* TcpListener::bind fails: listen reports it and returns, run goes on to
\* poll the flag
RunBindFail ==
    /\ run_pc = "created"
    /\ run_pc' = "polling"
    /\ listener' = "failed"
    /\ UNCHANGED <<is_stopped, acc, conns, queue, script_pos, scripted>>
    /\ UNCHANGED dbvars

\* a polling loop that ends whatever the flag says
RunPollEager ==
    /\ run_pc = "polling"
    /\ run_pc' = "returned"
    /\ UNCHANGED <<is_stopped, listener, acc, conns, queue, script_pos, scripted>>
    /\ UNCHANGED dbvars

\* run: the polling loop reads the flag set and run returns
RunPoll ==
    /\ run_pc = "polling"
    /\ is_stopped
    /\ run_pc' = "returned"
    /\ UNCHANGED <<is_stopped, listener, acc, conns, queue, script_pos, scripted>>
    /\ UNCHANGED dbvars

\* a stop that flips the flag instead of setting it
StopToggle ==
    /\ run_pc # "exited"
    /\ is_stopped' = ~is_stopped
    /\ UNCHANGED <<run_pc, listener, acc, conns, queue, script_pos, scripted>>
    /\ UNCHANGED dbvars

\* Server::stop
Stop ==
    /\ run_pc # "exited"
    /\ is_stopped' = TRUE
    /\ UNCHANGED <<run_pc, listener, acc, conns, queue, script_pos, scripted>>
    /\ UNCHANGED dbvars

\* the Ctrl-C handler that run installed
Interrupt ==
    /\ run_pc \in {"polling", "returned"}
    /\ is_stopped' = TRUE
    /\ UNCHANGED <<run_pc, listener, acc, conns, queue, script_pos, scripted>>
    /\ UNCHANGED dbvars

\* the connections not yet closed
Open == {i \in 1..Len(conns) : conns[i].st \notin {"closed", "dropped"}}

AllClosed == Open = {}

\* the process ends, and with it the thread in run, the listener thread and
\* the workers, wherever they are, the pool's queue, the store and the socket
ProcessEnds(how) ==
    /\ run_pc' = how
    /\ listener' = IF listener = "bound" THEN "closed" ELSE listener
    /\ acc' = IF acc.pc = "none" THEN acc ELSE [pc |-> "killed", cur |-> 0]
    /\ th' = [t \in Threads |-> [Idle EXCEPT !.pc = "killed"]]
    /\ queue' = <<>>
    /\ buckets' = NewBuckets(BUCKETS)
    /\ shard_w' = {}
    /\ shard_r' = {}
    /\ blob_store' = <<>>
    /\ blob_lock' = NoThread
    /\ pub_log' = <<>>
    /\ pub_calls' = 0
    /\ UNCHANGED <<is_stopped, script_pos, scripted>>
    /\ UNCHANGED <<set_log, set_again, last, calls, cx>>

\* the process is no more
ProcessGone == run_pc \in {"exited", "aborted"}

\* main returns once run has
MainExit ==
    /\ run_pc = "returned"
    /\ ProcessEnds("exited")
    /\ conns' = conns

Pending == {i \in 1..Len(conns) : conns[i].st = "pending"}

\* a client connects to the bound socket, sends msg and closes its sending end
Connect(msg) ==
    /\ listener = "bound"
    /\ acc.pc # "exited"
    /\ Len(conns) < MaxConns
    /\ Cardinality(Open) < MaxClients
    /\ conns' = Append(conns, [st |-> "pending", req |-> msg, resp |-> <<>>, late |-> FALSE])
    /\ script_pos' = IF msg \in StrayMessages THEN script_pos ELSE script_pos + 1
    /\ scripted' = (scripted /\ AllClosed /\ msg \notin StrayMessages)
    /\ UNCHANGED <<is_stopped, run_pc, listener, acc, queue>>
    /\ UNCHANGED dbvars

\* listener.incoming() yields the oldest waiting connection
AcceptConn ==
    /\ acc.pc = "accepting"
    /\ Pending # {}
    /\ LET c == CHOOSE i \in Pending : \A j \in Pending : i <= j
       IN  /\ acc' = [pc |-> "got", cur |-> c]
           /\ conns' = [conns EXCEPT ![c].st = "accepted"]
    /\ UNCHANGED <<is_stopped, run_pc, listener, queue, script_pos, scripted>>
    /\ UNCHANGED dbvars

\* listener.incoming() yields an error
AcceptErr ==
    /\ acc.pc = "accepting"
    /\ acc' = [pc |-> "got", cur |-> 0]
    /\ UNCHANGED <<is_stopped, run_pc, listener, conns, queue, script_pos, scripted>>
    /\ UNCHANGED dbvars

\* a listener thread that goes on to the match whatever the flag says
AcceptCheckBlind ==
    /\ acc.pc = "got"
    /\ acc' = IF acc.cur = 0 THEN [pc |-> "accepting", cur |-> 0]
                             ELSE [acc EXCEPT !.pc = "match"]
    /\ UNCHANGED <<is_stopped, run_pc, listener, conns, queue, script_pos, scripted>>
    /\ UNCHANGED dbvars

\* the listener thread reads the flag: set, it breaks out of the loop, which
\* drops the stream it holds and the listener with everything still waiting;
\* unset, it goes on to the match, where an accept error is only logged
AcceptCheck ==
    /\ acc.pc = "got"
    /\ IF is_stopped
       THEN /\ acc' = [pc |-> "exited", cur |-> 0]
            /\ conns' = [i \in 1..Len(conns) |->
                            IF i = acc.cur \/ conns[i].st = "pending" THEN Dropped
                            ELSE conns[i]]
       ELSE /\ acc' = IF acc.cur = 0 THEN [pc |-> "accepting", cur |-> 0]
                           ELSE [acc EXCEPT !.pc = "match"]
            /\ conns' = conns
    /\ UNCHANGED <<is_stopped, run_pc, listener, queue, script_pos, scripted>>
    /\ UNCHANGED dbvars

\* ThreadPool::execute: the task joins the queue
PoolExecute(q, task) == Append(q, task)

\* the task an idle worker of the pool takes: the oldest
PoolNext(q) == Head(q)

\* the queue once a worker has taken its task
PoolRest(q) == Tail(q)

\* the listener thread hands the stream it accepted to the pool
AcceptDispatch ==
    /\ acc.pc = "match"
    /\ acc' = [pc |-> "accepting", cur |-> 0]
    /\ queue' = PoolExecute(queue, acc.cur)
    /\ conns' = [conns EXCEPT ![acc.cur].st = "queued", ![acc.cur].late = is_stopped]
    /\ UNCHANGED <<is_stopped, run_pc, listener, script_pos, scripted>>
    /\ UNCHANGED dbvars

\* a worker takes the oldest task and reads the request off its stream: a
\* request enters the store call of its kind, anything else is to be answered
\* with Failure
WorkerTake(t) ==
    /\ CanCall(t)
    /\ queue # <<>>
    /\ Request_from_bytes(conns[PoolNext(queue)].req).st # "abort"
    /\ LET c == PoolNext(queue)
           d == Request_from_bytes(conns[c].req)
       IN  /\ queue' = PoolRest(queue)
           /\ conns' = [conns EXCEPT ![c] = IF d.st = "panic" THEN Dropped
                                             ELSE [conns[c] EXCEPT !.st = "serving"]]
           /\ th' = IF d.st = "panic"
                    THEN [th EXCEPT ![t] = [Idle EXCEPT !.pc = "dead"]]
                    ELSE IF d.st = "none"
                    THEN [th EXCEPT ![t] = [Idle EXCEPT !.pc = "done", !.op = "undecoded",
                                                        !.conn = c]]
                    ELSE IF d.val.kind = "Publish"
                    THEN Entered(t, PublishEntry(t, d.val.doc, c))
                    ELSE IF d.val.kind = "Search"
                    THEN Entered(t, SearchEntry(d.val.word, c))
                    ELSE Entered(t, RetrieveEntry(d.val.id, c))
           /\ pub_calls' = IF d.st = "some" /\ d.val.kind = "Publish"
                           THEN pub_calls + 1 ELSE pub_calls
    /\ UNCHANGED <<buckets, shard_w, shard_r, blob_store, blob_lock, pub_log, set_log,
                   set_again, last, calls, cx>>
    /\ UNCHANGED <<is_stopped, run_pc, listener, acc, script_pos, scripted>>

\* a worker takes the oldest task and reads a length off its stream that no
\* allocation can satisfy: the process aborts
WorkerAbort(t) ==
    /\ CanCall(t)
    /\ queue # <<>>
    /\ Request_from_bytes(conns[PoolNext(queue)].req).st = "abort"
    /\ ProcessEnds("aborted")
    /\ conns' = [conns EXCEPT ![PoolNext(queue)] = Dropped]

ResponseAlwaysFailure(r) == [kind |-> "Failure"]

\* the response process_message builds from what the store call returned; a
\* request that did not decode is answered with Failure
ResponseFor(r) ==
    CASE r.op = "publish"  -> [kind |-> "PublishSuccess", id |-> r.res[1]]
      [] r.op = "search"   -> [kind |-> "SearchSuccess", ids |-> r.res]
      [] r.op = "retrieve" -> IF r.res[1] = "Some"
                              THEN [kind |-> "RetrieveSuccess", doc |-> r.res[2]]
                              ELSE [kind |-> "Failure"]
      [] OTHER             -> [kind |-> "Failure"]

\* the worker writes the response and the stream drops, closing the connection
WorkerRespond(t) ==
    /\ th[t].pc = "done"
    /\ th[t].conn # 0
    /\ conns' = [conns EXCEPT ![th[t].conn] = Closed(Response_to_bytes(ResponseFor(th[t])))]
    /\ th' = [th EXCEPT ![t] = Idle]
    /\ UNCHANGED <<buckets, shard_w, shard_r, blob_store, blob_lock, pub_log, pub_calls,
                   set_log, set_again, last, calls, cx>>
    /\ UNCHANGED <<is_stopped, run_pc, listener, acc, queue, script_pos, scripted>>

\* what a worker thread does next
WorkerStep(t) ==
    \/ WorkerTake(t)
    \/ WorkerAbort(t)
    \/ PublishLock(t)
    \/ SetLock(t)
    \/ SetBody(t)
    \/ PublishPush(t)
    \/ PublishReturn(t)
    \/ GetLock(t)
    \/ GetBody(t)
    \/ RetrieveLock(t)
    \/ RetrieveBody(t)
    \/ WorkerRespond(t)

InitServing == InitStore(BUCKETS) /\ cx = CodecIdle /\ InitServer

NextServer ==
    \/ RunBindOk
    \/ RunBindFail
    \/ RunPoll
    \/ MainExit
    \/ Stop
    \/ Interrupt
    \/ \E msg \in ClientMessages : Connect(msg)
    \/ AcceptConn
    \/ AcceptErr
    \/ AcceptCheck
    \/ AcceptDispatch
    \/ \E t \in Threads : WorkerStep(t)

SpecServer == InitServing /\ [][NextServer]_vars

\* the thread in run keeps polling: it wakes from every sleep
SpecRunFair == SpecServer /\ WF_vars(RunPoll)

\* the threads of the server keep running: the listener thread takes a waiting
\* connection and goes on with it, the workers and the polling loop take their
\* steps.  Nothing obliges a client to connect, an accept to fail, or anyone
\* to call stop.
SpecServerFair ==
    /\ SpecServer
    /\ WF_vars(RunBindOk \/ RunBindFail)
    /\ WF_vars(RunPoll)
    /\ WF_vars(AcceptConn)
    /\ WF_vars(AcceptCheck)
    /\ WF_vars(AcceptDispatch)
    /\ \A t \in Threads : WF_vars(WorkerStep(t))

(***************************************************************************)
(* Properties of the document store.                                       *)
(***************************************************************************)
ReturnedIds == {pub_log[i][1] : i \in 1..Len(pub_log)}

NoPublishInFlight == \A t \in Threads : ~PublishInFlight(t)

\* C1: the ids publish has returned are pairwise distinct; once every publish
\* call made has returned, they are exactly 0..N-1 for the N calls; and a call
\* that overlapped no other publish call returns the number of calls before it.
C1_PublishIds ==
    /\ \A i, j \in 1..Len(pub_log) : i # j => pub_log[i][1] # pub_log[j][1]
    /\ NoPublishInFlight =>
          /\ Len(pub_log) = pub_calls
          /\ ReturnedIds = 0..(pub_calls - 1)
    /\ (last.op = "publish" /\ last.alone) => last.res = <<last.k>>
    /\ last.op = "publish" => <<last.res[1], last.arg>> \in Range(pub_log)

\* two publish calls overlapped and both have returned, the one that took
\* id 1 first
C1_Witness ==
    /\ Len(pub_log) = 2
    /\ NoPublishInFlight
    /\ pub_log[1][1] = 1
    /\ last.op = "publish" /\ ~last.alone /\ last.res = <<0>>

\* a publish call ran alone after another had returned, and returned 1
C1_WitnessSequential ==
    /\ Len(pub_log) = 2
    /\ last.op = "publish" /\ last.alone /\ last.k = 1 /\ last.res = <<1>>

\* the text handed to the publish call that took id, once that call has pushed
TextsOf(id) ==
    {pub_log[i][2] : i \in {j \in 1..Len(pub_log) : pub_log[j][1] = id}}
    \cup {th[u].arg : u \in {v \in Threads : th[v].op = "publish" /\ th[v].pc = "pub_ret"
                                              /\ th[v].id = id}}

RetrieveOk ==
    last.op = "retrieve" =>
        \* a publish that returned last.id before the call: its exact text
        /\ \A i \in 1..last.seen :
              pub_log[i][1] = last.id => last.res = <<"Some", pub_log[i][2]>>
        \* not-found exactly when the id is at or above the count at the read
        /\ (last.id >= last.k <=> last.res = <<"None">>)
        /\ (last.id >= pub_calls => last.res = <<"None">>)
        \* whatever is found is the text given to the publish that took the id
        /\ (last.res # <<"None">> =>
               /\ last.res[1] = "Some"
               /\ TextsOf(last.id) = {last.res[2]})

\* every stored document stays where it is, unchanged
StoreKept ==
    /\ Len(blob_store') >= Len(blob_store)
    /\ \A i \in 1..Len(blob_store) : blob_store'[i] = blob_store[i]

\* C2: retrieve(id) returns the exact text given to the publish that returned
\* id, not-found for every id at or above the document count, and a stored
\* document never changes afterwards.
C2_Retrieve == [][RetrieveOk' /\ StoreKept]_vars

\* a retrieve called after " Ab<TAB>bA " was published as id 1 returned it
C2_Witness ==
    /\ last.op = "retrieve" /\ last.id = 1 /\ last.seen = 2
    /\ last.res = <<"Some", <<32, 65, 98, 9, 98, 65, 32>>>>

\* a retrieve of the id equal to the document count returned not-found
C2_WitnessNotFound ==
    /\ last.op = "retrieve" /\ last.id = 1 /\ last.k = 1 /\ Len(blob_store) = 1
    /\ last.res = <<"None">>

\* the whitespace-delimited tokens of a text
TokensOf(text) ==
    {tok \in {SubSeq(text, i, j) : i \in 1..Len(text), j \in 1..Len(text)} :
        /\ tok # <<>>
        /\ \E i \in 1..Len(text) :
              LET j == i + Len(tok) - 1
              IN  /\ j <= Len(text)
                  /\ SubSeq(text, i, j) = tok
                  /\ \A x \in i..j : ~IsWhitespace(text[x])
                  /\ (i = 1 \/ IsWhitespace(text[i - 1]))
                  /\ (j = Len(text) \/ IsWhitespace(text[j + 1]))}

\* two words that differ at most in the case of their letters
SameUpToCase(w, tok) ==
    /\ Len(w) = Len(tok)
    /\ \A i \in 1..Len(w) :
          \/ w[i] = tok[i]
          \/ w[i] \in 65..90 /\ tok[i] = w[i] + 32
          \/ tok[i] \in 65..90 /\ w[i] = tok[i] + 32

\* the documents handed to publish so far
SubmittedDocs ==
    {pub_log[i][2] : i \in 1..Len(pub_log)}
    \cup {th[u].arg : u \in {v \in Threads : th[v].op = "publish"}}

C3_WitnessEmpty ==
    /\ Len(pub_log) >= 1
    /\ last.op = "search" /\ last.arg = <<122, 122>> /\ last.res = <<>>

(***************************************************************************)
(* Properties of the multimap.                                             *)
(***************************************************************************)
Occurrences(seq, x) == Cardinality({i \in 1..Len(seq) : seq[i] = x})

\* C4: no bucket ever holds a (key, value) pair twice, and a get returns no
\* value twice and, exactly once, every value set for its key before the call.
C4_Dedup ==
    /\ \A b \in 1..Len(buckets) :
          \A i, j \in 1..Len(buckets[b]) : i # j => buckets[b][i] # buckets[b][j]
    /\ last.op = "get" =>
          /\ \A v \in Range(last.res) : Occurrences(last.res, v) = 1
          /\ \A v \in last.known : Occurrences(last.res, v) = 1

\* a pair was set twice, and a get of its key called after both sets returned
\* its value once, along with the key's other value
C4_Witness ==
    /\ last.op = "get"
    /\ \E p \in set_again : p[1] = last.key /\ p[2] \in last.known
    /\ Len(last.res) = 2

(***************************************************************************)
(* Properties of the codec.                                                *)
(***************************************************************************)
\* C5: decoding the bytes of any Request or Response value gives the value
\* back and leaves exactly the bytes that followed it unread.
C5_RoundTrip ==
    (cx.decoded /\ cx.stage \in {"encoded", "extended"})
        => cx.dec = Some(cx.val, cx.tail)

\* SearchSuccess([0x0102, 0]) followed by two more bytes was decoded
C5_Witness ==
    /\ cx.decoded /\ cx.stage = "extended" /\ cx.fam = "response"
    /\ cx.val = [kind |-> "SearchSuccess", ids |-> <<258, 0>>]
    /\ cx.dec.st = "some" /\ cx.dec.rest = <<1, 0>>

\* a Publish of the two-byte text U+00E9 was decoded from its own bytes
C5_WitnessRequest ==
    /\ cx.decoded /\ cx.stage = "encoded" /\ cx.fam = "request"
    /\ cx.val = [kind |-> "Publish", doc |-> <<195, 169>>]
    /\ cx.dec.st = "some"

\* C6: decoding any strict prefix of the bytes of a Request or Response value
\* gives no value, and never a panic.
C6_Truncation ==
    (cx.decoded /\ cx.stage = "truncated") => cx.dec = None

\* the Request half of C6: every strict prefix of a Request decodes to no value
C6_RequestTruncation ==
    (cx.decoded /\ cx.stage = "truncated" /\ cx.fam = "request") => cx.dec = None

\* the stream starts with a string tag of the family, a length, and that many
\* bytes of ill-formed text
HasBadText(fam, w) ==
    /\ Len(w) >= 9
    /\ w[1] \in StringTags(fam)
    /\ FitsModel(SubSeq(w, 2, 9))
    /\ LET len == from_be_bytes(SubSeq(w, 2, 9))
       IN  Len(w) >= 9 + len /\ IllFormed(SubSeq(w, 10, 9 + len))

\* C7: a stream whose first byte is no tag of the family, or whose string
\* payload is not UTF-8, decodes to no value.
C7_Foreign ==
    (cx.decoded /\ cx.wire # <<>> /\ (cx.wire[1] \notin KnownTags(cx.fam)
                                       \/ HasBadText(cx.fam, cx.wire)))
        => cx.dec = None

\* a Search whose two-byte word is a lead byte followed by 'A' was decoded
C7_Witness ==
    /\ cx.decoded /\ cx.fam = "request"
    /\ cx.wire = <<2>> \o to_be_bytes(2) \o <<195, 65>>
    /\ cx.dec = None

\* tag 4 opened a request stream, and tag 5 a response stream
C7_WitnessTag ==
    /\ cx.decoded /\ cx.dec = None /\ cx.wire # <<>>
    /\ \/ cx.fam = "request" /\ cx.wire[1] = 4
       \/ cx.fam = "response" /\ cx.wire[1] = 5

(***************************************************************************)
(* Properties of the server.                                               *)
(***************************************************************************)
Conns == 1..Len(conns)

\* the worker serving connection c
ServedBy(c) == CHOOSE t \in Threads : th[t].conn = c

\* what the request rq calls for, given the record r of the store call the
\* worker made for it
Owed(rq, r) ==
    CASE rq.kind = "Publish" -> [kind |-> "PublishSuccess", id |-> r.res[1]]
      [] rq.kind = "Search"  -> [kind |-> "SearchSuccess", ids |-> r.res]
      [] OTHER               -> IF rq.id < r.k
                                THEN [kind |-> "RetrieveSuccess", doc |-> blob_store[rq.id + 1]]
                                ELSE [kind |-> "Failure"]

\* the store call made for the request rq
CallFor(rq, r) ==
    CASE rq.kind = "Publish" -> /\ r.op = "publish" /\ r.arg = rq.doc
                                /\ <<r.res[1], rq.doc>> \in Range(pub_log)
      [] rq.kind = "Search"  -> r.op = "search" /\ r.arg = rq.word
      [] OTHER               -> r.op = "retrieve" /\ r.id = rq.id

\* a step that closes a served connection whose request decoded has written
\* one message, the response owed; a served connection is not closed without
\* one, and nothing is written to a closed connection
ExchangeOk ==
    \A c \in Conns :
        LET d == Request_from_bytes(conns[c].req)
        IN  /\ (conns[c].st = "serving" /\ conns'[c] # conns[c] /\ d.st = "some") =>
                  /\ conns'[c].st = "closed"
                  /\ \E t \in Threads : th[t].conn = c
                  /\ CallFor(d.val, th[ServedBy(c)])
                  /\ LET rs == Response_from_bytes(conns'[c].resp)
                     IN  /\ rs.st = "some"
                         /\ rs.rest = <<>>
                         /\ rs.val = Owed(d.val, th[ServedBy(c)])
            /\ conns[c].st = "closed" => conns'[c] = conns[c]

ScriptResponses ==
    << [kind |-> "PublishSuccess", id |-> 0],
       [kind |-> "SearchSuccess", ids |-> <<0>>],
       [kind |-> "RetrieveSuccess", doc |-> HelloWorld],
       [kind |-> "Failure"] >>

\* on a server that has seen only the scripted exchanges, one after the other,
\* each answered exchange got the scripted response
ScriptWire == [k \in DOMAIN ScriptResponses |-> Response_to_bytes(ScriptResponses[k])]

ScriptOk ==
    scripted => \A c \in Conns : conns[c].st = "closed" => conns[c].resp = ScriptWire[c]

\* C8: a worker answers a connection whose request decodes with exactly one
\* response, the one for the request kind applied to the store: Publish gets
\* PublishSuccess with the id publish returned, Search gets SearchSuccess with
\* the ids search returned, Retrieve gets RetrieveSuccess with the stored text
\* or Failure when the id is not stored; and the sequential exchanges
\* Publish "hello world", Search "hello", Retrieve 0, Retrieve 5 on a fresh
\* server get PublishSuccess(0), SearchSuccess([0]),
\* RetrieveSuccess("hello world"), Failure.
C8_Exchange == [][ExchangeOk /\ ScriptOk']_vars

\* the four scripted exchanges have been made and answered
C8_Witness ==
    /\ scripted
    /\ Len(conns) = Len(Script)
    /\ \A c \in Conns : conns[c].st = "closed"

\* a Search answered while the Publish was still in flight
C8_WitnessConcurrent ==
    /\ Len(conns) >= 2
    /\ conns[2].st = "closed"
    /\ conns[2].resp = Response_to_bytes([kind |-> "SearchSuccess", ids |-> <<>>])
    /\ conns[1].st = "serving"

Undecodable(bytes) == Request_from_bytes(bytes).st # "some"

\* a worker's step for a connection whose request did not decode
FailureStep(t) ==
    /\ th'[t] # th[t]
    /\ th'[t].pc # "killed"
    /\ \/ th[t].op = "undecoded"
       \/ th'[t].op = "undecoded"
       \/ th'[t].pc = "dead"

\* what happens to a connection in a worker's hands whose request does not
\* decode: Failure is written, the connection closes, the store stays as it is
DecodeFailureOk(c) ==
    /\ \/ conns'[c].st \in {"queued", "serving"}
       \/ /\ conns'[c].st = "closed"
          /\ conns'[c].resp = Response_to_bytes([kind |-> "Failure"])
    /\ (\E t \in Threads : FailureStep(t)) => UNCHANGED <<buckets, blob_store>>

\* C9: when a worker's decode of the request fails (malformed or truncated
\* message), the worker writes a Failure response, closes the connection and
\* leaves the store (index and blob list) unchanged.
C9_DecodeFailure ==
    [][\A c \in Conns :
          (conns[c].st \in {"queued", "serving"} /\ Undecodable(conns[c].req))
              => DecodeFailureOk(c)]_vars

\* the same for the requests whose decode returns None
C9_DecodeNone ==
    [][\A c \in Conns :
          (conns[c].st \in {"queued", "serving"} /\ Request_from_bytes(conns[c].req) = None)
              => DecodeFailureOk(c)]_vars

\* a truncated request has been answered with Failure
C9_WitnessNone ==
    /\ script_pos = 0
    /\ \E c \in Conns : conns[c].st = "closed" /\ conns[c].resp = <<4>>

\* C10: after stop() has set the flag, the accept loop eventually exits,
\* whether or not any further client connects (the end of the process, where
\* the launcher goes on to exit, counts as the loop's exit).
C10_ShutdownLiveness ==
    (is_stopped /\ acc.pc # "none") ~> (acc.pc = "exited" \/ ProcessGone)

\* with the flag set and a connection or an accept error in hand, the
\* listener thread's next step is out of the loop
C10_ExitAfterAccept ==
    [][(is_stopped /\ acc.pc = "got" /\ acc' # acc) => acc'.pc \in {"exited", "killed"}]_vars

\* a task joins the pool's queue in this step
Submits == Len(queue') > Len(queue)

\* C11 as stated: once the stop flag has been set, the accept loop submits no
\* further task to the pool, and the first connection it obtains after the
\* flag is set makes it exit without processing that connection.
C11_NoSubmitAfterStop ==
    [][/\ is_stopped => ~Submits
       /\ (is_stopped /\ acc.pc = "got" /\ acc' # acc /\ ~ProcessGone') =>
              /\ acc'.pc = "exited"
              /\ acc.cur # 0 => conns'[acc.cur] = Dropped]_vars

\* C11 amended: once the flag is set and the listener thread is not already
\* past its flag check, it never submits again: with the flag set it stays
\* waiting or holding what accept gave it, a connection (or error) it then
\* checks makes it exit with that connection dropped unprocessed, and a loop
\* that has exited, or ended with the process, does nothing more.  Only a connection whose check came before
\* the flag was set is still submitted.
C11_NoSubmitAfterCheck ==
    [][/\ (is_stopped /\ acc.pc \in {"accepting", "got", "exited", "killed"}) =>
              /\ ~Submits
              /\ acc'.pc \in {"accepting", "got", "exited", "killed"}
       /\ (is_stopped /\ acc.pc = "got" /\ acc' # acc /\ ~ProcessGone') =>
              /\ acc'.pc = "exited"
              /\ acc.cur # 0 => conns'[acc.cur] = Dropped
       /\ acc.pc \in {"exited", "killed"} => acc'.pc \in {"exited", "killed"}
       /\ (is_stopped /\ Submits) => (acc.pc = "match" /\ acc'.pc = "accepting")]_vars

\* the loop has exited on a connection it obtained, which it dropped
C11_Witness ==
    /\ is_stopped
    /\ acc.pc = "exited"
    /\ \E c \in Conns : conns[c] = Dropped

\* a task submitted after the flag was set is being served
C11_WitnessLate == \E c \in Conns : conns[c].st = "serving" /\ conns[c].late

\* the tasks submitted before the flag was set and not yet finished
Unfinished == {c \in Conns : conns[c].st \in {"queued", "serving"} /\ ~conns[c].late}

\* C12: every task submitted to the pool before stop() still runs to
\* completion and writes its response, also when run returns and the launcher
\* goes on to exit: when the process has ended no such task is left
\* unfinished.
C12_TasksComplete == run_pc = "exited" => Unfinished = {}

\* run has returned
RunReturned == run_pc \in {"returned", "exited"}

\* C13: run blocks its calling thread for as long as the stop flag is unset
\* and returns once stop() or the interrupt handler has set it: it never
\* returns while the flag is unset, and with the flag set it does not stay in
\* the polling loop for ever (it returns, unless the process ends first).
C13_RunBlocks ==
    /\ [](RunReturned => is_stopped)
    /\ [][run_pc = "polling" => run_pc' = "polling" \/ is_stopped \/ ProcessGone']_vars
    /\ (is_stopped /\ run_pc = "polling") ~> (RunReturned \/ ProcessGone)

\* run has returned after serving a connection
C13_Witness ==
    /\ RunReturned
    /\ \E c \in Conns : conns[c].st = "closed"

\* run is still blocked after a connection was served, the flag unset
C13_WitnessBlocked ==
    /\ run_pc = "polling"
    /\ ~is_stopped
    /\ \E c \in Conns : conns[c].st = "closed"

\* C14: stop() is idempotent and safe under concurrency: however the calls
\* of stop(), the interrupt handler and the reads of run and of the accept
\* loop interleave, a step that changes the flag sets it and changes nothing
\* else, and no step clears the flag once it is set.
C14_StopSticks ==
    [][/\ is_stopped => is_stopped'
       /\ is_stopped' # is_stopped =>
              /\ is_stopped'
              /\ UNCHANGED <<run_pc, listener, acc, conns, queue, script_pos, scripted>>
              /\ UNCHANGED dbvars]_vars

\* the flag was set while a connection was being served, both the accept loop
\* and run have read it, and the connection has been answered since
C14_Witness ==
    /\ is_stopped
    /\ run_pc = "returned"
    /\ acc.pc = "exited"
    /\ \E c \in Conns : conns[c].st = "closed"

\* after a failed bind no accept loop runs and no connection is made or served
NeverListening == acc.pc = "none" /\ conns = <<>> /\ queue = <<>>

\* C15: bind failure is fatal: the bind is not retried, the server never
\* enters Listening (no accept loop, no connection served), and the process
\* does not stay running as a server: run comes back without anyone having
\* to stop it.
C15_BindFatal ==
    /\ [](listener = "failed" => NeverListening)
    /\ [][listener = "failed" => listener' = "failed"]_vars
    /\ (listener = "failed") ~> RunReturned

\* what does hold after a failed bind: nothing listens, nothing is retried
C15_NoListening ==
    /\ [](listener = "failed" => NeverListening)
    /\ [][listener = "failed" => listener' = "failed"]_vars

\* C16: no error arising from one connection (a decode failure on whatever
\* bytes the client sent, an oversized declared length included, or an accept
\* error) terminates the accept loop, the thread in run or a worker: no
\* worker has died of a request, and the process has not been brought down
\* by one.
C16_Containment ==
    /\ run_pc # "aborted"
    /\ \A t \in Threads : th[t].pc # "dead"

\* what does hold: an accept error or a request whose decode returns None
\* leaves the listener thread in its loop and the worker in the pool
C16_ErrorsContained ==
    [][/\ (acc.pc = "got" /\ acc.cur = 0 /\ ~is_stopped /\ acc' # acc /\ ~ProcessGone')
              => acc'.pc = "accepting"
       /\ \A t \in Threads :
              (th[t].op = "undecoded" /\ th'[t] # th[t] /\ ~ProcessGone')
                  => th'[t] = Idle]_vars


\* ---------------------------------------------------------------------
\* C17: a set waiting for the write lock of its shard can take it exactly
\* when no other operation holds a guard of that same shard; guards held
\* on other shards never block it (and a get is blocked only by a write
\* guard of its own shard).
GuardsOf(b) == {g \in shard_w \cup shard_r : g[1] = b}

C17_ShardIndependence ==
    \A t \in Threads :
        /\ th[t].pc = "set_lock" =>
              (ENABLED SetLock(t) <=> GuardsOf(bucket_ind(th[t].key)) = {})
        /\ th[t].pc = "get_lock" =>
              (ENABLED GetLock(t) <=>
                  \A g \in shard_w : g[1] # bucket_ind(th[t].key))

\* a set holds the write guard of one shard while another operation holds
\* a guard of a different shard
C17_Witness ==
    \E t, u \in Threads :
        /\ t # u
        /\ th[t].op = "set" /\ th[t].pc = "set_body"
        /\ \E g \in shard_w \cup shard_r :
              g[2] = u /\ g[1] # th[t].b /\ <<th[t].b, t>> \in shard_w

\* ---------------------------------------------------------------------
\* the shard guards thread t holds, and whether it holds the mutex of the
\* blob store
ShardGuards(t) == {g \in shard_w \cup shard_r : g[2] = t}

HoldsBlob(t) == blob_lock = t

Indexed(word, id) == HasPair(buckets[bucket_ind(word) + 1], word, id)

\* the text of the publish run by thread t is in the blob list
Appended(t) == Len(blob_store) > th[t].id

\* C19: within one publish every (word, id) insertion precedes the append
\* of the text: while the publish is still in its word loop the text is not
\* in the blob list, the step that appends it inserts nothing and finds all
\* the words of the text indexed, and no insertion of the publish follows.
C19_IndexBeforeAppend ==
    [][\A t \in Threads :
          th[t].op = "publish" =>
            /\ th[t].pc \in {"set_lock", "set_body"} => ~Appended(t)
            /\ (th[t].pc = "pub_push" /\ th'[t].pc = "pub_ret") =>
                  /\ buckets' = buckets
                  /\ blob_store' = Append(blob_store, th[t].arg)
                  /\ th[t].id = Len(blob_store)
                  /\ \A i \in 1..Len(IndexWords(th[t].arg)) :
                        Indexed(IndexWords(th[t].arg)[i], th[t].id)
            /\ th[t].pc \in {"pub_ret", "done"} =>
                  \A i \in 1..Len(IndexWords(th[t].arg)) :
                      Indexed(IndexWords(th[t].arg)[i], th[t].id)]_vars

\* a search has returned an id whose document is not in the blob list yet
C19_Witness ==
    /\ last.op = "search"
    /\ \E i \in 1..Len(last.res) : Len(blob_store) <= last.res[i]
    /\ \E t \in Threads :
          /\ th[t].op = "publish" /\ th[t].pc \in {"set_lock", "set_body", "pub_push"}
          /\ \E i \in 1..Len(last.res) : last.res[i] = th[t].id

\* ---------------------------------------------------------------------
\* the listener thread is in its accept loop
AcceptLoopAlive == acc.pc \in {"accepting", "got", "match"}

\* the lifecycle state of the server as the flag and the accept loop show it
LifecycleState ==
    IF ProcessGone THEN "Stopped"
    ELSE IF ~is_stopped THEN (IF AcceptLoopAlive THEN "Listening" ELSE "Created")
    ELSE IF AcceptLoopAlive THEN "Stopping" ELSE "Stopped"

LifecycleRank(s) ==
    CASE s = "Created" -> 0
      [] s = "Listening" -> 1
      [] s = "Stopping" -> 2
      [] s = "Stopped" -> 3

\* C20: for every ordering of run() and stop() the lifecycle only moves
\* forward through Created, Listening, Stopping, Stopped: once the stop flag
\* is set no step starts listening and no step accepts a connection, a
\* successful bind enters Listening, and no step returns to an earlier state.
C20_Lifecycle ==
    [][/\ LifecycleRank(LifecycleState') >= LifecycleRank(LifecycleState)
       /\ is_stopped => (AcceptLoopAlive' => AcceptLoopAlive)
       /\ is_stopped => \A c \in 1..Len(conns) :
                            conns[c].st = "pending" => conns'[c].st # "accepted"
       /\ (run_pc = "created" /\ listener' = "bound") =>
              LifecycleState' = "Listening"]_vars

\* what does hold: the flag is never cleared, a listener is bound at most
\* once, and when the bind precedes the flag the state never moves back
C20_ForwardAfterBind ==
    [][/\ is_stopped => is_stopped'
       /\ listener # "unbound" => listener' # "unbound"
       /\ (listener' = "bound" /\ listener # "bound") => listener = "unbound"
       /\ ~(is_stopped /\ run_pc = "created") =>
              LifecycleRank(LifecycleState') >= LifecycleRank(LifecycleState)
       /\ (run_pc = "created" /\ listener' = "bound" /\ ~is_stopped) =>
              LifecycleState' = "Listening"]_vars

\* ---------------------------------------------------------------------
\* the threads inside an operation of the document store
InFlight == {t \in Threads : th[t].pc \notin {"idle", "done", "dead", "killed"}}

\* C21: the document store is free of deadlock: in no reachable state is
\* every unfinished operation blocked on a lock, and under fair scheduling
\* every operation that has started returns to its caller.
C21_DeadlockFree ==
    /\ [](InFlight # {} => \E t \in InFlight : ENABLED ThreadStep(t))
    /\ \A t \in Threads : (t \in InFlight) ~> (t \notin InFlight)

\* an operation waits for a lock another operation holds: a publish or a
\* retrieve for the mutex, or a set or a get for the lock of its shard
C21_Witness ==
    \E t, u \in Threads :
        /\ t # u /\ t \in InFlight /\ u \in InFlight
        /\ ~ENABLED ThreadStep(t)
        /\ ENABLED ThreadStep(u)
        /\ th[u].op = "publish" /\ HoldsBlob(u) /\ ShardGuards(u) # {}

\* ---------------------------------------------------------------------
\* the ids the index maps some word to
IndexedIds ==
    UNION {{buckets[b][i][2] : i \in 1..Len(buckets[b])} : b \in 1..Len(buckets)}

\* C22: once a search has returned a result containing id X, every
\* retrieve(X) invoked afterwards yields the document, never not-found,
\* whatever publishes run concurrently: a retrieve of an id the search
\* before it had found returns the text published under that id; what a
\* search returns is in the index, the index never loses an id, and a
\* retrieve reads the blob list only when every indexed id is below its
\* length.
C22_FoundIsRetrievable ==
    /\ [](last.op = "retrieve" /\ last.id \in last.known =>
              /\ last.res # <<"None">>
              /\ last.res[1] = "Some"
              /\ TextsOf(last.id) = {last.res[2]})
    /\ [](last.op = "search" => Range(last.res) \subseteq IndexedIds)
    /\ [][/\ IndexedIds \subseteq IndexedIds'
          /\ \A t \in Threads :
                (th[t].op = "retrieve" /\ th[t].pc = "ret_body" /\ th'[t].pc # "ret_body") =>
                    \A x \in IndexedIds : x < Len(blob_store)]_vars

\* a retrieve of an id the search before it had found returned the document,
\* although the publish of that id had not returned when it was invoked
C22_Witness ==
    /\ last.op = "retrieve" /\ last.id \in last.known
    /\ last.res[1] = "Some"
    /\ \A i \in 1..last.seen : pub_log[i][1] # last.id

\* ---------------------------------------------------------------------
\* the (word, id) entries of the inverted index
IndexEntries ==
    UNION {{buckets[b][i] : i \in 1..Len(buckets[b])} : b \in 1..Len(buckets)}

\* the lowercased whitespace-separated tokens of a text
LowerTokens(doc) ==
    {to_lowercase(split_whitespace(doc)[i]) : i \in 1..Len(split_whitespace(doc))}

\* a publish holds the mutex of the blob store and is about to append
\* document id
Publishing(id) ==
    \E t \in Threads : th[t].op = "publish" /\ HoldsBlob(t) /\ th[t].id = id

\* C23: every (word, id) entry of the index has id below the length of the
\* blob list, or equal to it while a publish holds the blob-store lock; and
\* once the document is stored at id, it contains word as a lowercased
\* whitespace-separated token.
C23_IndexStoreConsistent ==
    \A e \in IndexEntries :
        /\ \/ e[2] < Len(blob_store)
           \/ e[2] = Len(blob_store) /\ Publishing(e[2])
        /\ e[2] < Len(blob_store) => e[1] \in LowerTokens(blob_store[e[2] + 1])

\* the index holds an entry of a stored document whose text is not in
\* lowercase, and an entry of a document that a publish holding the lock
\* has yet to append
C23_Witness ==
    /\ \E e \in IndexEntries :
          /\ e[2] < Len(blob_store)
          /\ blob_store[e[2] + 1] # to_lowercase(blob_store[e[2] + 1])
    /\ \E e \in IndexEntries : e[2] = Len(blob_store) /\ Publishing(e[2])

=========================================================================
